---- MODULE Spec2Model ----
(***************************************************************************)
(* State-machine model of two ign-gazebo systems:                          *)
(*   - systems/velocity_control/VelocityControl.cc                         *)
(*   - systems/buoyancy/Buoyancy.cc                                        *)
(*                                                                         *)
(* Spec          the VelocityControl system, one action per handler        *)
(*               (Configure, PreUpdate, PostUpdate, OnCmdVel,              *)
(*               OnLinkCmdVel) plus the world changing around it.          *)
(* SpecRace      the same system with the handlers cut at the points where *)
(*               the transport threads can interleave with the simulation  *)
(*               thread.                                                   *)
(* SpecBuoyancy  the Buoyancy system.                                      *)
(***************************************************************************)
EXTENDS Integers, Sequences, FiniteSets, TLC

(***************************************************************************)
(* Bounds of the model.                                                    *)
(***************************************************************************)
\* Number of distinct non-zero velocity messages a publisher may send.
MaxCmd == 2
\* Number of invocations that may wait in the Qt thread's event queue.
MaxQueue == 2

(***************************************************************************)
(* The simulated world: entities of the EntityComponentManager.            *)
(***************************************************************************)
kNullEntity == 0
WorldEntity == kNullEntity + 1
ModelEntity == kNullEntity + 2
LinkEntityA == kNullEntity + 3
LinkEntityAB == kNullEntity + 4

EntityIds == {kNullEntity, WorldEntity, ModelEntity, LinkEntityA, LinkEntityAB}
LinkEntities == {LinkEntityA, LinkEntityAB}

\* Strings are sequences of characters, so that std::string::find and
\* operator+ can be modelled by what they do.
NameA == <<"a">>
NameAB == <<"a", "b">>
NameX == <<"x">>
NameK == <<"k">>
ModelName == <<"m">>
EmptyString == <<>>

\* Name component of every entity.
EntityName(e) ==
  IF e = ModelEntity THEN ModelName
  ELSE IF e = LinkEntityA THEN NameA
  ELSE IF e = LinkEntityAB THEN NameAB
  ELSE <<"w">>

\* ParentEntity component of the links.
EntityParent(e) == IF e \in LinkEntities THEN ModelEntity ELSE kNullEntity

\* The <plugin> elements the system is loaded with: whether there is a
\* <topic> element, and the <link_name> elements in document order.
SdfConfigs ==
  {[hasTopic |-> FALSE, link_name |-> <<>>],
   [hasTopic |-> TRUE, link_name |-> <<NameA>>],
   [hasTopic |-> FALSE, link_name |-> <<NameA, NameAB>>],
   [hasTopic |-> FALSE, link_name |-> <<NameK, NameX>>]}
AllLinkNames == {NameA, NameAB, NameX, NameK}

(***************************************************************************)
(* Vectors and Twist messages.                                             *)
(***************************************************************************)
Vector3Zero == <<0, 0, 0>>
\* A component slot that holds no component (Component<T>() == nullptr).
NoComponent == <<>>

\* msgs::Twist default-constructed: all six fields are zero.
TwistZero == [linear |-> Vector3Zero, angular |-> Vector3Zero]
\* The k-th message of a publisher; its six fields are pairwise different.
TwistOf(k) == [linear |-> <<10 * k + 1, 10 * k + 2, 10 * k + 3>>,
               angular |-> <<10 * k + 4, 10 * k + 5, 10 * k + 6>>]
Msgs == {TwistOf(k) : k \in 1..MaxCmd}

(***************************************************************************)
(* std::string helpers.                                                    *)
(***************************************************************************)
\* s.find(sub) != std::string::npos
StringFind(s, sub) ==
  \E i \in 0..(Len(s) - Len(sub)) : SubSeq(s, i + 1, i + Len(sub)) = sub

StrModelPrefix == <<"/", "m", "o", "d", "e", "l", "/">>
StrLinkInfix == <<"/", "l", "i", "n", "k", "/">>
StrCmdVel == <<"/", "c", "m", "d", "_", "v", "e", "l">>
\* The value of an SDF <topic> element, when the model has one.
CustomTopic == <<"/", "t">>

\* "/model/" + model.Name(_ecm) + "/cmd_vel"
ModelTopicOf(modelName) == StrModelPrefix \o modelName \o StrCmdVel
\* "/model/" + model.Name(_ecm) + "/link/" + linkName + "/cmd_vel"
LinkTopicOf(modelName, linkName) ==
  StrModelPrefix \o modelName \o StrLinkInfix \o linkName \o StrCmdVel

\* Every topic a publisher of the test bench publishes on.
AllLinkTopics == {LinkTopicOf(ModelName, n) : n \in AllLinkNames}

(***************************************************************************)
(* std::map helpers.                                                       *)
(***************************************************************************)
EmptyMap == [k \in {} |-> {}]

\* std::map::insert({k, v}): inserts only if the key is not yet present.
MapInsert(map, k, v) == IF k \in DOMAIN map THEN map ELSE (k :> v) @@ map

(***************************************************************************)
(* State.                                                                  *)
(***************************************************************************)
VARIABLES
  \* EntityComponentManager
  entities,            \* the entities that exist
  angularVelocityCmd,  \* components::AngularVelocityCmd of every entity
  linearVelocityCmd,   \* components::LinearVelocityCmd of every entity
  \* VelocityControlPrivate
  model,               \* Model model{kNullEntity}
  angularVelocity,     \* math::Vector3d angularVelocity{0, 0, 0}
  linearVelocity,      \* math::Vector3d linearVelocity{0, 0, 0}
  targetVel,           \* msgs::Twist targetVel
  mutex,               \* std::mutex mutex: "free" or the thread holding it
  linkNames,           \* std::vector<std::string> linkNames
  links,               \* std::map<std::string, Entity> links
  angularVelocities,   \* std::map<std::string, math::Vector3d>
  linearVelocities,    \* std::map<std::string, math::Vector3d>
  linkVels,            \* std::map<std::string, msgs::Twist> linkVels
  subscriptions,       \* transport::Node node: the (topic, callback) pairs
  \* the scheduler
  configured,          \* Configure has been called
  \* history of the run, read only by the properties
  lastStep,            \* the handler that ran last and its arguments
  ecmCalls,            \* the component calls the last handler made
  lastCmd,             \* <<m>>: m is the last message given to OnCmdVel
  lastLinkCmd,         \* last message on the watched link channel, and count
  cycle,               \* PostUpdate/PreUpdate progress since the last message
  \* the threads, when the handlers are cut into their steps (SpecRace)
  simPc,               \* where the simulation thread is
  linVel,              \* double linVel of UpdateVelocity
  angVel,              \* double angVel of UpdateVelocity
  cb,                  \* per transport thread: its OnLinkCmdVel call
  iterSeen,            \* keys of linkVels when UpdateLinkVelocity's loop began
  postCache,           \* the targets cached when the last PostUpdate ended
  simLast              \* the handler the simulation thread completed last

\* The Buoyancy system and the components it reads and writes.
VARIABLES
  scene,               \* the model's links: collisions and Inertial
  worldGravity,        \* components::Gravity of the world entity
  linkPose,            \* world pose of every link
  wrenchCmd,           \* components::ExternalWorldWrenchCmd of every entity
  \* BuoyancyPrivate
  buoyancyModel,       \* Model model{kNullEntity}
  gravity,             \* const components::Gravity *gravity
  fluidDensity,        \* double fluidDensity{1000}
  volPropsMap,         \* std::map<int, VolumeProperties> volPropsMap
  \* the process and the scheduler
  buoyancyConfigured,  \* Buoyancy::Configure has been called
  crashed,             \* the process died in a null dereference
  buoyancyLast,        \* the Buoyancy handler that ran last
  \* history of the run, read only by the properties
  wrenchCalls,         \* the component calls the last Buoyancy handler made
  gravityAtConfigure,  \* the world's Gravity value when Configure ran
  validAtConfigure     \* Model::Valid of the entity when Configure ran

buoyVars == <<scene, worldGravity, linkPose, wrenchCmd, buoyancyModel,
              gravity, fluidDensity, volPropsMap, buoyancyConfigured,
              crashed, buoyancyLast, wrenchCalls, gravityAtConfigure,
              validAtConfigure>>

\* The JointPositionController GUI plugin and the joints it lists.
VARIABLES
  joints,              \* the Joint entities whose ParentEntity is the model
  \* JointPositionControllerPrivate
  modelEntity,         \* Entity modelEntity{1}
  modelName,           \* QString modelName
  locked,              \* bool locked{false}
  \* JointsModel
  items,               \* std::map<Entity, QStandardItem *> items
  rows,                \* the rows of invisibleRootItem()
  lastReturn,          \* <<item>>: what the last AddJoint returned
  \* the Qt thread
  guiQueue,            \* the queued invocations of JointsModel slots
  guiPc,               \* "idle", or "erase" inside RemoveJoint
  guiArg,              \* the _entity of the RemoveJoint in progress
  \* the thread that runs Update
  updPc,               \* where Update is
  jointEntities,       \* auto jointEntities of Update
  updTodo,             \* the joints the first loop has not visited yet
  updIter,             \* the keys the second loop has not visited yet
  updTorn              \* items was erased from while the second loop ran

guiVars == <<joints, modelEntity, modelName, locked, items, rows, lastReturn,
             guiQueue, guiPc, guiArg, updPc, jointEntities, updTodo, updIter,
             updTorn>>

\* The joints of the model: two revolute ones, a fixed one, and one without
\* JointType component.
JointEntityR1 == LinkEntityAB + 1
JointEntityR2 == LinkEntityAB + 2
JointEntityFixed == LinkEntityAB + 3
JointEntityNoType == LinkEntityAB + 4
JointIds == {JointEntityR1, JointEntityR2, JointEntityFixed, JointEntityNoType}

\* JointType component of a joint, NoComponent when it has none.
JointTypeOf(e) ==
  IF e = JointEntityFixed THEN "FIXED"
  ELSE IF e = JointEntityNoType THEN NoComponent
  ELSE "REVOLUTE"

\* The joint has a JointType component.
HasJointType(e) == e # JointEntityNoType

\* "No model selected"
StrNoModelSelected ==
  <<"N", "o", " ", "m", "o", "d", "e", "l", " ",
    "s", "e", "l", "e", "c", "t", "e", "d">>

\* State after JointPositionController::JointPositionController(): the
\* inspected entity defaults to entity 1, the world.
InitJointPositionController ==
  /\ modelEntity = WorldEntity
  /\ modelName = EmptyString
  /\ locked = FALSE
  /\ items = EmptyMap
  /\ rows = <<>>
  /\ lastReturn = <<>>
  /\ guiQueue = <<>>
  /\ guiPc = "idle"
  /\ guiArg = kNullEntity
  /\ updPc = "idle"
  /\ jointEntities = {}
  /\ updTodo = {}
  /\ updIter = {}
  /\ updTorn = FALSE

\* The GUI plugin is not part of the run: its state stays as constructed.
GuiNotLoaded ==
  /\ joints = {}
  /\ InitJointPositionController

ecmVars == <<entities, angularVelocityCmd, linearVelocityCmd>>
privVars == <<model, angularVelocity, linearVelocity, targetVel, mutex,
              linkNames, links, angularVelocities, linearVelocities,
              linkVels, subscriptions>>
histVars == <<lastStep, ecmCalls, lastCmd, lastLinkCmd, cycle>>
vcVars == <<ecmVars, privVars, configured, histVars>>
raceVars == <<simPc, linVel, angVel, cb, iterSeen, postCache, simLast>>

\* The transport threads that run link callbacks.
CbThreads == {"t1", "t2"}
CbIdle == [pc |-> "idle", msg |-> TwistZero, topic |-> EmptyString, i |-> 0]

\* The cached targets: what PostUpdate leaves for PreUpdate.
Cached(lin, ang, lins, angs) ==
  [linear |-> lin, angular |-> ang, linears |-> lins, angulars |-> angs]

\* No handler is in progress on any thread.
InitThreads ==
  /\ simPc = "idle"
  /\ linVel = 0
  /\ angVel = 0
  /\ cb = [t \in CbThreads |-> CbIdle]
  /\ iterSeen = {}
  /\ postCache = Cached(Vector3Zero, Vector3Zero, EmptyMap, EmptyMap)
  /\ simLast = "none"

Step(op, paused, dtNeg) == [op |-> op, paused |-> paused, dtNeg |-> dtNeg]

\* State after VelocityControl::VelocityControl(), with no command
\* component in the world yet.
InitVelocityControl ==
  /\ angularVelocityCmd = [e \in EntityIds |-> NoComponent]
  /\ linearVelocityCmd = [e \in EntityIds |-> NoComponent]
  /\ model = kNullEntity
  /\ angularVelocity = Vector3Zero
  /\ linearVelocity = Vector3Zero
  /\ targetVel = TwistZero
  /\ mutex = "free"
  /\ linkNames = <<>>
  /\ links = EmptyMap
  /\ angularVelocities = EmptyMap
  /\ linearVelocities = EmptyMap
  /\ linkVels = EmptyMap
  /\ subscriptions = {}
  /\ configured = FALSE
  /\ lastStep = Step("other", FALSE, FALSE)
  /\ ecmCalls = {}
  /\ lastCmd = <<>>
  /\ lastLinkCmd = <<>>
  /\ cycle = 0

(***************************************************************************)
(* The parts of the gazebo API the system calls.                           *)
(***************************************************************************)
\* Model::Valid: the entity has a components::Model.
ModelValid(e, ents) == e = ModelEntity /\ e \in ents

\* Model::Name: the Name component, or "" when the entity has none.
ModelNameOf(e, ents) == IF e \in ents THEN EntityName(e) ELSE EmptyString

\* Model::LinkByName: the link child of that name, or kNullEntity.
LinkByName(ents, mdl, name) ==
  IF \E e \in ents \cap LinkEntities :
       EntityParent(e) = mdl /\ EntityName(e) = name
  THEN CHOOSE e \in ents \cap LinkEntities :
         EntityParent(e) = mdl /\ EntityName(e) = name
  ELSE kNullEntity

\* The call that sets a component: CreateComponent when Component<T>()
\* returned nullptr, assignment through the pointer otherwise.
EcmCall(store, e, comp) ==
  IF store[e] = NoComponent THEN <<"CreateComponent", e, comp>>
  ELSE <<"Assign", e, comp>>

\* The store after that call.
EcmSet(store, e, v) == [store EXCEPT ![e] = v]

(***************************************************************************)
(* Doubles and math::Vector3d, with the non-finite values of IEEE 754.     *)
(***************************************************************************)
Fin(n) == [k |-> "fin", v |-> n]
NaN == [k |-> "nan", v |-> 0]
Inf(sign) == [k |-> "inf", v |-> sign]
IsFinite(d) == d.k = "fin"
SignOf(n) == IF n < 0 THEN 0 - 1 ELSE 1

DNeg(a) == IF a.k = "nan" THEN NaN ELSE [a EXCEPT !.v = 0 - a.v]

DMul(a, b) ==
  IF a.k = "nan" \/ b.k = "nan" THEN NaN
  ELSE IF a.k = "inf" \/ b.k = "inf"
       THEN IF a.v = 0 \/ b.v = 0 THEN NaN
            ELSE Inf(SignOf(a.v) * SignOf(b.v))
       ELSE Fin(a.v * b.v)

DAdd(a, b) ==
  IF a.k = "nan" \/ b.k = "nan" THEN NaN
  ELSE IF a.k = "inf" /\ b.k = "inf"
       THEN IF a.v = b.v THEN a ELSE NaN
       ELSE IF a.k = "inf" THEN a
            ELSE IF b.k = "inf" THEN b
                 ELSE Fin(a.v + b.v)

DSub(a, b) == DAdd(a, DNeg(b))

\* a / b; the finite quotients of the scenes below are whole numbers.
DDiv(a, b) ==
  IF a.k = "nan" \/ b.k = "nan" THEN NaN
  ELSE IF b.k = "inf" THEN (IF a.k = "inf" THEN NaN ELSE Fin(0))
       ELSE IF a.k = "inf" THEN Inf(SignOf(a.v) * SignOf(b.v))
            ELSE IF b.v = 0
                 THEN (IF a.v = 0 THEN NaN ELSE Inf(SignOf(a.v)))
                 ELSE Fin(SignOf(a.v) * SignOf(b.v)
                          * ((a.v * SignOf(a.v)) \div (b.v * SignOf(b.v))))

V3(x, y, z) == <<Fin(x), Fin(y), Fin(z)>>
V3Zero == V3(0, 0, 0)
V3NaN == <<NaN, NaN, NaN>>
V3IsFinite(a) == \A i \in 1..3 : IsFinite(a[i])

V3Add(a, b) == [i \in 1..3 |-> DAdd(a[i], b[i])]
V3Sub(a, b) == [i \in 1..3 |-> DSub(a[i], b[i])]
\* double * Vector3d
V3Scale(d, a) == [i \in 1..3 |-> DMul(d, a[i])]
\* Vector3d / double
V3Div(a, d) == [i \in 1..3 |-> DDiv(a[i], d)]
\* Vector3d::Cross
V3Cross(a, b) ==
  <<DSub(DMul(a[2], b[3]), DMul(a[3], b[2])),
    DSub(DMul(a[3], b[1]), DMul(a[1], b[3])),
    DSub(DMul(a[1], b[2]), DMul(a[2], b[1]))>>

\* Quaterniond::RotateVector for the two orientations of the scenes: the
\* identity and a quarter turn about z.  The quaternion product multiplies
\* every component of the vector, so one non-finite component makes all
\* three NaN.
RotateVector(rot, a) ==
  IF ~V3IsFinite(a) THEN V3NaN
  ELSE IF rot = "z90" THEN <<DNeg(a[2]), a[1], a[3]>>
       ELSE a

(***************************************************************************)
(* The scenes the Buoyancy system is loaded into.                          *)
(***************************************************************************)
\* One collision: its geometry type, what Shape().Volume() or
\* Mesh::Volume() returns for it, its position in the link frame, whether
\* it has a CollisionElement, and for a mesh whether the file name is valid
\* and the file loads.
Collision(type, volume, pos) ==
  [type |-> type, volume |-> volume, pos |-> pos, element |-> TRUE,
   validFilename |-> TRUE, loads |-> TRUE]

BoxAtOrigin == Collision("BOX", 8, V3Zero)
BoxOnX == Collision("BOX", 2, V3(1, 0, 0))
SphereOnX == Collision("SPHERE", 2, V3(3, 0, 0))
CylinderOnY == Collision("CYLINDER", 1, V3(0, 2, 0))
PlaneShape == Collision("PLANE", 4, V3Zero)
HeightmapShape == Collision("HEIGHTMAP", 4, V3Zero)
MeshShape == Collision("MESH", 3, V3(0, 0, 1))
MeshBadName == [MeshShape EXCEPT !.validFilename = FALSE]
MeshUnloadable == [MeshShape EXCEPT !.loads = FALSE]
NoElement == [BoxAtOrigin EXCEPT !.element = FALSE]

\* Per scene: the collisions of each link and the position of its centre of
\* mass (Inertial), NoComponent when the link has no Inertial.
Scenes ==
  {[collisions |-> (LinkEntityA :> <<BoxAtOrigin>>
                    @@ LinkEntityAB :> <<>>),
    inertial |-> (LinkEntityA :> V3Zero @@ LinkEntityAB :> V3Zero)],
   [collisions |-> (LinkEntityA :> <<PlaneShape, HeightmapShape>>
                    @@ LinkEntityAB :> <<BoxOnX, SphereOnX>>),
    inertial |-> (LinkEntityA :> V3(1, 0, 0)
                  @@ LinkEntityAB :> V3(1, 0, 0))],
   [collisions |-> (LinkEntityA :> <<MeshBadName, CylinderOnY, NoElement>>
                    @@ LinkEntityAB :> <<MeshUnloadable, MeshShape>>),
    inertial |-> (LinkEntityA :> V3Zero @@ LinkEntityAB :> NoComponent)]}

Poses ==
  {[pos |-> V3Zero, rot |-> "id"], [pos |-> V3(1, 0, 0), rot |-> "z90"]}

Gravities == {V3(0, 0, 0 - 10), V3(0, 0, 0 - 2)}

\* double fluidDensity{1000}
DefaultFluidDensity == 1000
\* The <fluid_density> elements an SDF file may hold; 0 stands for none.
SdfFluidDensities == {0, 2}

\* What a read through a null Inertial pointer may yield when it does not
\* end the process.
GarbagePositions == {V3Zero, V3(0, 5, 0)}

\* VolumeProperties() : volume(0), with cov a default Vector3d.
DefaultVolumeProperties == [cov |-> V3Zero, volume |-> Fin(0)]

NoWrench == <<>>

\* Buoyancy is not part of the run: its state stays as constructed.
BuoyancyNotLoaded ==
  /\ scene = [collisions |-> (LinkEntityA :> <<>> @@ LinkEntityAB :> <<>>),
              inertial |-> (LinkEntityA :> V3Zero @@ LinkEntityAB :> V3Zero)]
  /\ worldGravity = NoComponent
  /\ linkPose = [l \in LinkEntities |-> [pos |-> V3Zero, rot |-> "id"]]
  /\ wrenchCmd = [e \in EntityIds |-> NoWrench]
  /\ buoyancyModel = kNullEntity
  /\ gravity = "nullptr"
  /\ fluidDensity = DefaultFluidDensity
  /\ volPropsMap = EmptyMap
  /\ buoyancyConfigured = FALSE
  /\ crashed = FALSE
  /\ buoyancyLast = "none"
  /\ wrenchCalls = {}
  /\ gravityAtConfigure = NoComponent
  /\ validAtConfigure = FALSE

\* State after Buoyancy::Buoyancy() in one of the scenes.
InitBuoyancy ==
  /\ scene \in Scenes
  /\ worldGravity \in {NoComponent} \cup Gravities
  /\ linkPose = [l \in LinkEntities |-> [pos |-> V3Zero, rot |-> "id"]]
  /\ wrenchCmd = [e \in EntityIds |-> NoWrench]
  /\ buoyancyModel = kNullEntity
  /\ gravity = "nullptr"
  /\ fluidDensity = DefaultFluidDensity
  /\ volPropsMap = EmptyMap
  /\ buoyancyConfigured = FALSE
  /\ crashed = FALSE
  /\ buoyancyLast = "none"
  /\ wrenchCalls = {}
  /\ gravityAtConfigure = NoComponent
  /\ validAtConfigure = FALSE

(***************************************************************************)
(* VelocityControl::Configure                                              *)
(***************************************************************************)
\* The subscriptions Configure makes for a valid model.
ConfigureSubscriptions(mdl, ents, _sdf) ==
  {[topic |-> IF _sdf.hasTopic THEN CustomTopic
              ELSE ModelTopicOf(ModelNameOf(mdl, ents)),
    cb |-> "OnCmdVel"]}
  \cup {[topic |-> LinkTopicOf(ModelNameOf(mdl, ents), _sdf.link_name[i]),
         cb |-> "OnLinkCmdVel"] : i \in 1..Len(_sdf.link_name)}

Configure(_entity, _sdf) ==
  /\ UNCHANGED <<raceVars, buoyVars, guiVars>>
  /\ ~configured
  /\ configured' = TRUE
  /\ model' = _entity
  /\ IF ~ModelValid(_entity, entities)
     THEN UNCHANGED <<subscriptions, linkNames>>
     ELSE /\ subscriptions' =
               ConfigureSubscriptions(_entity, entities, _sdf)
          /\ linkNames' = _sdf.link_name
  /\ lastStep' = Step("other", FALSE, FALSE)
  /\ ecmCalls' = {}
  /\ UNCHANGED <<ecmVars, angularVelocity, linearVelocity, targetVel, mutex,
                 links, angularVelocities, linearVelocities, linkVels,
                 lastCmd, lastLinkCmd, cycle>>

(***************************************************************************)
(* VelocityControlPrivate::OnCmdVel, OnLinkCmdVel                          *)
(***************************************************************************)
\* A callback that keeps the first command it got instead of the last.
OnCmdVelKeepsFirst(old, _msg) == IF old = TwistZero THEN _msg ELSE old

\* this->targetVel = _msg
OnCmdVelStore(old, _msg) == _msg

\* The std::lock_guard of OnCmdVel: the callback runs when the mutex is free
\* and has released it when it returns.
OnCmdVel(_msg) ==
  /\ UNCHANGED <<raceVars, buoyVars, guiVars>>
  /\ \E s \in subscriptions : s.cb = "OnCmdVel"
  /\ mutex = "free"
  /\ targetVel' = OnCmdVelStore(targetVel, _msg)
  /\ lastStep' = Step("other", FALSE, FALSE)
  /\ ecmCalls' = {}
  /\ lastCmd' = <<_msg>>
  /\ cycle' = 0
  /\ UNCHANGED <<ecmVars, model, angularVelocity, linearVelocity, mutex,
                 linkNames, links, angularVelocities, linearVelocities,
                 linkVels, subscriptions, configured, lastLinkCmd>>

\* The body of the loop of OnLinkCmdVel for one link name.
OnLinkCmdVelVisit(lv, linkName, _msg, topic) ==
  IF StringFind(topic, linkName) THEN MapInsert(lv, linkName, _msg) ELSE lv

\* for (const auto &linkName : this->linkNames) ...
RECURSIVE OnLinkCmdVelLoop(_, _, _, _)
OnLinkCmdVelLoop(names, lv, _msg, topic) ==
  IF names = <<>> THEN lv
  ELSE OnLinkCmdVelLoop(Tail(names),
                        OnLinkCmdVelVisit(lv, Head(names), _msg, topic),
                        _msg, topic)

\* The link whose channel the history variable lastLinkCmd follows.
WatchedLink == NameA
WatchedTopic == LinkTopicOf(ModelName, WatchedLink)

\* The history of the watched channel after a message on `topic`: the last
\* message that came on the watched channel and whether it was the first.
Received(hist, topic, _msg) ==
  IF topic = WatchedTopic
  THEN <<[msg |-> _msg, count |-> IF hist = <<>> THEN 1 ELSE 2]>>
  ELSE hist

OnLinkCmdVel(_msg, topic) ==
  /\ UNCHANGED <<raceVars, buoyVars, guiVars>>
  /\ \E s \in subscriptions : s.cb = "OnLinkCmdVel" /\ s.topic = topic
  /\ linkVels' = OnLinkCmdVelLoop(linkNames, linkVels, _msg, topic)
  /\ lastStep' = Step("other", FALSE, FALSE)
  /\ ecmCalls' = {}
  /\ lastLinkCmd' = Received(lastLinkCmd, topic, _msg)
  /\ cycle' = 0
  /\ UNCHANGED <<ecmVars, model, angularVelocity, linearVelocity, targetVel,
                 mutex, linkNames, links, angularVelocities,
                 linearVelocities, subscriptions, configured, lastCmd>>

\* A message on a link channel nobody subscribed to reaches no callback.
PublishUnsubscribed(_msg, topic) ==
  /\ UNCHANGED <<raceVars, buoyVars, guiVars>>
  /\ configured
  /\ ~\E s \in subscriptions : s.topic = topic
  /\ UNCHANGED <<ecmVars, privVars, configured, histVars>>

(***************************************************************************)
(* VelocityControl::PreUpdate                                              *)
(***************************************************************************)
\* A PreUpdate that also returns when time moved backward.
PreUpdateReturnsOnRewind(paused, dtNeg) == paused \/ dtNeg

\* A PreUpdate that goes on when the step is paused.
PreUpdateNeverReturnsEarly(paused, dtNeg) == FALSE

\* Lines 160-170: a negative dt is only warned about; the handler returns
\* early exactly when the step is paused.
PreUpdateReturnsEarly(paused, dtNeg) == paused

\* A PreUpdate that takes the linear command from the message buffer.
ModelLinearCmdFromBuffer == targetVel.linear

\* A PreUpdate that leaves an angular command that is already there.
ModelAngularCmdKeepsExisting ==
  IF angularVelocityCmd[model] # NoComponent THEN angularVelocityCmd[model]
  ELSE angularVelocity

\* The values PreUpdate puts into the model's components.
ModelAngularCmd == angularVelocity
ModelLinearCmd == linearVelocity

\* One round of the loop that looks up the link names not yet in links.
ResolveLink(lnks, linkName, ents, mdl) ==
  IF linkName \notin DOMAIN lnks
  THEN IF LinkByName(ents, mdl, linkName) # kNullEntity
       THEN MapInsert(lnks, linkName, LinkByName(ents, mdl, linkName))
       ELSE lnks
  ELSE lnks

RECURSIVE ResolveLinks(_, _, _, _)
ResolveLinks(names, lnks, ents, mdl) ==
  IF names = <<>> THEN lnks
  ELSE ResolveLinks(Tail(names), ResolveLink(lnks, Head(names), ents, mdl),
                    ents, mdl)

\* A loop over links that writes nothing.
LinksWrittenNone(lnks, vels) == {}

\* The link names whose entity gets a component from the cache `vels`.
LinksWritten(lnks, vels) == DOMAIN lnks \cap DOMAIN vels

\* The store after the loop over links has set one kind of component.
LinkWrites(store, lnks, vels) ==
  [e \in EntityIds |->
     IF \E n \in LinksWritten(lnks, vels) : lnks[n] = e
     THEN vels[CHOOSE n \in LinksWritten(lnks, vels) : lnks[n] = e]
     ELSE store[e]]

\* The calls that loop makes for one kind of component.
LinkCalls(store, lnks, vels, comp) ==
  {EcmCall(store, lnks[n], comp) : n \in LinksWritten(lnks, vels)}

\* A PreUpdate that never looks a link up.
PreUpdateLinksNeverResolves == links

\* links after lines 210-226.
PreUpdateLinks ==
  IF linkNames = <<>> THEN links
  ELSE ResolveLinks(linkNames, links, entities, model)

\* The links the loop of lines 231-262 visits.
PreUpdateVisited ==
  IF linkNames = <<>> \/ DOMAIN PreUpdateLinks = {} THEN EmptyMap
  ELSE PreUpdateLinks

PreUpdate(paused, dtNeg) ==
  /\ UNCHANGED <<raceVars, buoyVars, guiVars>>
  /\ configured
  /\ lastStep' = Step("PreUpdate", paused, dtNeg)
  /\ IF PreUpdateReturnsEarly(paused, dtNeg)
     THEN /\ ecmCalls' = {}
          /\ UNCHANGED <<ecmVars, links, cycle>>
     ELSE LET ang == EcmSet(angularVelocityCmd, model, ModelAngularCmd)
              lin == EcmSet(linearVelocityCmd, model, ModelLinearCmd)
          IN /\ links' = PreUpdateLinks
             /\ angularVelocityCmd' =
                  LinkWrites(ang, PreUpdateVisited, angularVelocities)
             /\ linearVelocityCmd' =
                  LinkWrites(lin, PreUpdateVisited, linearVelocities)
             /\ ecmCalls' =
                  {EcmCall(angularVelocityCmd, model, "AngularVelocityCmd"),
                   EcmCall(linearVelocityCmd, model, "LinearVelocityCmd")}
                  \cup LinkCalls(ang, PreUpdateVisited, angularVelocities,
                                 "AngularVelocityCmd")
                  \cup LinkCalls(lin, PreUpdateVisited, linearVelocities,
                                 "LinearVelocityCmd")
             /\ cycle' = IF cycle >= 1 THEN 2 ELSE 0
             /\ UNCHANGED entities
  /\ UNCHANGED <<model, angularVelocity, linearVelocity, targetVel, mutex,
                 linkNames, angularVelocities, linearVelocities, linkVels,
                 subscriptions, configured, lastCmd, lastLinkCmd>>

(***************************************************************************)
(* VelocityControl::PostUpdate                                             *)
(***************************************************************************)
\* math::Vector3d(linVel, targetVel.linear().y(), targetVel.linear().z())
UpdateVelocityLinear(x, tv) == <<x, tv.linear[2], tv.linear[3]>>
\* math::Vector3d(targetVel.angular().x(), targetVel.angular().y(), angVel)
UpdateVelocityAngular(z, tv) == <<tv.angular[1], tv.angular[2], z>>

\* math::Vector3d(msg.linear().x(), msg.linear().y(), msg.linear().z())
LinearOf(msg) == <<msg.linear[1], msg.linear[2], msg.linear[3]>>
\* math::Vector3d(msg.angular().x(), msg.angular().y(), msg.angular().z())
AngularOf(msg) == <<msg.angular[1], msg.angular[2], msg.angular[3]>>

\* UpdateLinkVelocity: the linear cache after the loop visited `keys`.
RECURSIVE UpdateLinkVelocityLinear(_, _, _)
UpdateLinkVelocityLinear(keys, lv, cache) ==
  IF keys = {} THEN cache
  ELSE LET linkName == CHOOSE k \in keys : TRUE
       IN UpdateLinkVelocityLinear(keys \ {linkName}, lv,
            MapInsert(cache, linkName, LinearOf(lv[linkName])))

\* An UpdateLinkVelocity that caches no angular target.
UpdateLinkVelocityAngularSkips(keys, lv, cache) == cache

\* UpdateLinkVelocity: the angular cache after the loop visited `keys`.
RECURSIVE UpdateLinkVelocityAngular(_, _, _)
UpdateLinkVelocityAngular(keys, lv, cache) ==
  IF keys = {} THEN cache
  ELSE LET linkName == CHOOSE k \in keys : TRUE
       IN UpdateLinkVelocityAngular(keys \ {linkName}, lv,
            MapInsert(cache, linkName, AngularOf(lv[linkName])))

PostUpdate(paused) ==
  /\ UNCHANGED <<raceVars, buoyVars, guiVars>>
  /\ configured
  /\ mutex = "free"
  /\ lastStep' = Step("PostUpdate", paused, FALSE)
  /\ ecmCalls' = {}
  /\ IF paused
     THEN UNCHANGED <<linearVelocity, angularVelocity, linearVelocities,
                      angularVelocities, cycle>>
     ELSE /\ linearVelocity' =
               UpdateVelocityLinear(targetVel.linear[1], targetVel)
          /\ angularVelocity' =
               UpdateVelocityAngular(targetVel.angular[3], targetVel)
          /\ linearVelocities' =
               UpdateLinkVelocityLinear(DOMAIN linkVels, linkVels,
                                        linearVelocities)
          /\ angularVelocities' =
               UpdateLinkVelocityAngular(DOMAIN linkVels, linkVels,
                                         angularVelocities)
          /\ cycle' = 1
  /\ UNCHANGED <<ecmVars, model, targetVel, mutex, linkNames, links,
                 linkVels, subscriptions, configured, lastCmd, lastLinkCmd>>

(***************************************************************************)
(* The world around the system.                                            *)
(***************************************************************************)
\* The entities a removal of the model takes away: the model and, as
\* RequestRemoveEntity is recursive, its links.
Removed == {ModelEntity} \cup LinkEntities

\* Another system removes the model; the components of a removed entity go
\* with it.
DestroyModel ==
  /\ UNCHANGED <<raceVars, guiVars>>
  /\ UNCHANGED <<scene, worldGravity, linkPose, buoyancyModel, gravity,
                 fluidDensity, volPropsMap, buoyancyConfigured, crashed,
                 buoyancyLast, wrenchCalls, gravityAtConfigure,
                 validAtConfigure>>
  /\ wrenchCmd' =
       [e \in EntityIds |-> IF e \in Removed THEN NoWrench ELSE wrenchCmd[e]]
  /\ ModelEntity \in entities
  /\ entities' = entities \ Removed
  /\ angularVelocityCmd' =
       [e \in EntityIds |-> IF e \in Removed THEN NoComponent
                            ELSE angularVelocityCmd[e]]
  /\ linearVelocityCmd' =
       [e \in EntityIds |-> IF e \in Removed THEN NoComponent
                            ELSE linearVelocityCmd[e]]
  /\ lastStep' = Step("other", FALSE, FALSE)
  /\ ecmCalls' = {}
  /\ UNCHANGED <<privVars, configured, lastCmd, lastLinkCmd, cycle>>

\* A link of the model is created after the model was loaded.
CreateLink(e) ==
  /\ UNCHANGED <<raceVars, buoyVars, guiVars>>
  /\ ModelEntity \in entities
  /\ e \in LinkEntities \ entities
  /\ entities' = entities \cup {e}
  /\ lastStep' = Step("other", FALSE, FALSE)
  /\ ecmCalls' = {}
  /\ UNCHANGED <<angularVelocityCmd, linearVelocityCmd, privVars, configured,
                 lastCmd, lastLinkCmd, cycle>>

\* What another system leaves in a LinearVelocityCmd it writes.
ForeignVelocity == <<9, 9, 9>>

\* Another system removes the model's AngularVelocityCmd and overwrites its
\* LinearVelocityCmd between two ticks.
OtherSystemChangesCmd ==
  /\ UNCHANGED <<raceVars, buoyVars, guiVars>>
  /\ ModelEntity \in entities
  /\ angularVelocityCmd[ModelEntity] # NoComponent
  /\ linearVelocityCmd[ModelEntity] # NoComponent
  /\ angularVelocityCmd' = EcmSet(angularVelocityCmd, ModelEntity, NoComponent)
  /\ linearVelocityCmd' = EcmSet(linearVelocityCmd, ModelEntity,
                                 ForeignVelocity)
  /\ lastStep' = Step("other", FALSE, FALSE)
  /\ ecmCalls' = {}
  /\ cycle' = IF cycle = 2 THEN 1 ELSE cycle
  /\ UNCHANGED <<entities, privVars, configured, lastCmd, lastLinkCmd>>

(***************************************************************************)
(* Spec: the handlers of VelocityControl, one action each.                 *)
(***************************************************************************)
vars == <<vcVars, raceVars, buoyVars, guiVars>>

Init ==
  /\ entities = {WorldEntity, ModelEntity, LinkEntityA}
  /\ InitVelocityControl
  /\ InitThreads
  /\ BuoyancyNotLoaded
  /\ GuiNotLoaded

Next ==
  \/ \E e \in {ModelEntity, WorldEntity, LinkEntityA} :
       \E sdf \in SdfConfigs : Configure(e, sdf)
  \/ \E m \in Msgs : OnCmdVel(m)
  \/ \E m \in Msgs : \E t \in AllLinkTopics : OnLinkCmdVel(m, t)
  \/ \E m \in Msgs : \E t \in AllLinkTopics : PublishUnsubscribed(m, t)
  \/ \E paused \in BOOLEAN : \E dtNeg \in BOOLEAN : PreUpdate(paused, dtNeg)
  \/ \E paused \in BOOLEAN : PostUpdate(paused)
  \/ DestroyModel
  \/ \E e \in LinkEntities : CreateLink(e)
  \/ OtherSystemChangesCmd

Spec == Init /\ [][Next]_vars

(***************************************************************************)
(* SpecRace: the simulation thread runs PreUpdate and PostUpdate statement *)
(* by statement while the transport threads run the callbacks.             *)
(***************************************************************************)
\* PreUpdate, lines 160-187: the early return, then the model's angular
\* command.
RacePreUpdateBegin(paused, dtNeg) ==
  /\ configured
  /\ simPc = "idle"
  /\ IF PreUpdateReturnsEarly(paused, dtNeg)
     THEN UNCHANGED <<angularVelocityCmd, simPc>>
     ELSE /\ angularVelocityCmd' =
               EcmSet(angularVelocityCmd, model, ModelAngularCmd)
          /\ simPc' = "pre_linear"
  /\ UNCHANGED <<entities, linearVelocityCmd, privVars, configured, histVars, buoyVars, guiVars,
                 linVel, angVel, cb, iterSeen, postCache, simLast>>

\* PreUpdate, lines 189-204: the model's linear command.
RacePreUpdateLinear ==
  /\ simPc = "pre_linear"
  /\ linearVelocityCmd' = EcmSet(linearVelocityCmd, model, ModelLinearCmd)
  /\ simPc' = "pre_links"
  /\ UNCHANGED <<entities, angularVelocityCmd, privVars, configured,
                 histVars, buoyVars, guiVars, linVel, angVel, cb, iterSeen, postCache, simLast>>

\* PreUpdate, lines 206-262: link lookup and the links' commands.
RacePreUpdateLinks ==
  /\ simPc = "pre_links"
  /\ links' = PreUpdateLinks
  /\ angularVelocityCmd' =
       LinkWrites(angularVelocityCmd, PreUpdateVisited, angularVelocities)
  /\ linearVelocityCmd' =
       LinkWrites(linearVelocityCmd, PreUpdateVisited, linearVelocities)
  /\ simPc' = "idle"
  /\ simLast' = "pre"
  /\ UNCHANGED <<entities, model, angularVelocity, linearVelocity, targetVel,
                 mutex, linkNames, angularVelocities, linearVelocities,
                 linkVels, subscriptions, configured, histVars, buoyVars, guiVars, linVel,
                 angVel, cb, iterSeen, postCache>>

\* PostUpdate, lines 271-272, and UpdateVelocity, lines 290-291: the lock is
\* taken and linVel read.
RacePostUpdateLock(paused) ==
  /\ configured
  /\ simPc = "idle"
  /\ IF paused
     THEN UNCHANGED <<mutex, linVel, simPc, simLast>>
     ELSE /\ mutex = "free"
          /\ mutex' = "sim"
          /\ linVel' = targetVel.linear[1]
          /\ simPc' = "post_locked"
          /\ simLast' = "post"
  /\ UNCHANGED <<ecmVars, model, angularVelocity, linearVelocity, targetVel,
                 linkNames, links, angularVelocities, linearVelocities,
                 linkVels, subscriptions, configured, histVars, buoyVars, guiVars, angVel, cb,
                 iterSeen, postCache>>

\* UpdateVelocity, lines 292-293: angVel is read and the lock released.
RacePostUpdateUnlock ==
  /\ simPc = "post_locked"
  /\ angVel' = targetVel.angular[3]
  /\ mutex' = "free"
  /\ simPc' = "post_linear"
  /\ UNCHANGED <<ecmVars, model, angularVelocity, linearVelocity, targetVel,
                 linkNames, links, angularVelocities, linearVelocities,
                 linkVels, subscriptions, configured, histVars, buoyVars, guiVars, linVel, cb,
                 iterSeen, postCache, simLast>>

\* UpdateVelocity, lines 295-296: targetVel is read again, without the lock.
\* The local linVel is dead afterwards.
RacePostUpdateLinear ==
  /\ simPc = "post_linear"
  /\ linearVelocity' = UpdateVelocityLinear(linVel, targetVel)
  /\ linVel' = 0
  /\ simPc' = "post_angular"
  /\ UNCHANGED <<ecmVars, model, angularVelocity, targetVel, mutex,
                 linkNames, links, angularVelocities, linearVelocities,
                 linkVels, subscriptions, configured, histVars, buoyVars, guiVars, angVel, cb,
                 iterSeen, postCache, simLast>>

\* UpdateVelocity, lines 297-298: and again.
RacePostUpdateAngular ==
  /\ simPc = "post_angular"
  /\ angularVelocity' = UpdateVelocityAngular(angVel, targetVel)
  /\ angVel' = 0
  /\ simPc' = "post_links"
  /\ UNCHANGED <<ecmVars, model, linearVelocity, targetVel, mutex,
                 linkNames, links, angularVelocities, linearVelocities,
                 linkVels, subscriptions, configured, histVars, buoyVars, guiVars, linVel, cb,
                 iterSeen, postCache, simLast>>

\* UpdateLinkVelocity, line 308: the loop over linkVels begins.
RaceUpdateLinkVelocityBegin ==
  /\ simPc = "post_links"
  /\ iterSeen' = DOMAIN linkVels
  /\ simPc' = "post_iter"
  /\ UNCHANGED <<ecmVars, privVars, configured, histVars, buoyVars, guiVars, linVel, angVel,
                 cb, postCache, simLast>>

\* UpdateLinkVelocity, lines 308-314: the loop has visited the keys it began
\* with and any of the keys inserted while it ran.
RaceUpdateLinkVelocityEnd(keys) ==
  /\ simPc = "post_iter"
  /\ iterSeen \subseteq keys
  /\ keys \subseteq DOMAIN linkVels
  /\ linearVelocities' =
       UpdateLinkVelocityLinear(keys, linkVels, linearVelocities)
  /\ angularVelocities' =
       UpdateLinkVelocityAngular(keys, linkVels, angularVelocities)
  /\ postCache' = Cached(linearVelocity, angularVelocity,
                         linearVelocities', angularVelocities')
  /\ iterSeen' = {}
  /\ simPc' = "idle"
  /\ UNCHANGED <<ecmVars, model, angularVelocity, linearVelocity, targetVel,
                 mutex, linkNames, links, linkVels, subscriptions,
                 configured, histVars, buoyVars, guiVars, linVel, angVel, cb, simLast>>

\* OnLinkCmdVel is entered on a transport thread.
RaceOnLinkCmdVelBegin(t, _msg, topic) ==
  /\ \E s \in subscriptions : s.cb = "OnLinkCmdVel" /\ s.topic = topic
  /\ cb[t].pc = "idle"
  /\ cb' = [cb EXCEPT ![t] =
              [pc |-> "visit", msg |-> _msg, topic |-> topic, i |-> 1]]
  /\ UNCHANGED <<ecmVars, privVars, configured, histVars, buoyVars, guiVars, simPc, linVel,
                 angVel, iterSeen, postCache, simLast>>

\* One round of the loop of OnLinkCmdVel, lines 328-334.
RaceOnLinkCmdVelVisit(t) ==
  /\ cb[t].pc = "visit"
  /\ linkVels' = OnLinkCmdVelVisit(linkVels, linkNames[cb[t].i], cb[t].msg,
                                   cb[t].topic)
  /\ cb' = [cb EXCEPT ![t] = IF cb[t].i = Len(linkNames) THEN CbIdle
                             ELSE [cb[t] EXCEPT !.i = cb[t].i + 1]]
  /\ UNCHANGED <<ecmVars, model, angularVelocity, linearVelocity, targetVel,
                 mutex, linkNames, links, angularVelocities,
                 linearVelocities, subscriptions, configured, histVars, buoyVars, guiVars,
                 simPc, linVel, angVel, iterSeen, postCache, simLast>>

\* The <plugin> element of the model in SpecRace.
RaceSdfConfigs == {sdf \in SdfConfigs : sdf.link_name = <<NameA>>}

NextRace ==
  \/ \E sdf \in RaceSdfConfigs : Configure(ModelEntity, sdf)
  \/ \E m \in Msgs : OnCmdVel(m)
  \/ \E t \in CbThreads : \E m \in Msgs : \E topic \in AllLinkTopics :
       RaceOnLinkCmdVelBegin(t, m, topic)
  \/ \E t \in CbThreads : RaceOnLinkCmdVelVisit(t)
  \/ \E paused \in BOOLEAN : \E dtNeg \in BOOLEAN :
       RacePreUpdateBegin(paused, dtNeg)
  \/ RacePreUpdateLinear
  \/ RacePreUpdateLinks
  \/ \E paused \in BOOLEAN : RacePostUpdateLock(paused)
  \/ RacePostUpdateUnlock
  \/ RacePostUpdateLinear
  \/ RacePostUpdateAngular
  \/ RaceUpdateLinkVelocityBegin
  \/ \E keys \in SUBSET AllLinkNames : RaceUpdateLinkVelocityEnd(keys)

SpecRace == Init /\ [][NextRace]_vars

(***************************************************************************)
(* Buoyancy::Configure                                                     *)
(***************************************************************************)
\* _ecm.ChildrenByComponents(model.Entity(), components::Link())
ChildLinks(mdl, ents) ==
  {e \in ents \cap LinkEntities : EntityParent(e) = mdl}

\* A switch that takes the volume the shape declares, whatever its kind.
CollisionVolumeOfAnyShape(c) == Fin(c.volume)

\* The switch over the geometry type, lines 129-165.
CollisionVolume(c) ==
  IF c.type \in {"BOX", "SPHERE", "CYLINDER"} THEN Fin(c.volume)
  ELSE IF c.type = "PLANE" THEN Fin(0)
  ELSE IF c.type = "MESH"
       THEN IF c.validFilename /\ c.loads THEN Fin(c.volume) ELSE Fin(0)
       ELSE Fin(0)

\* worldPose(collision, _ecm).Pos()
CollisionWorldPos(c, pose) == V3Add(pose.pos, RotateVector(pose.rot, c.pos))

\* The loop over the collisions of one link, lines 117-170: volumeSum and
\* weightedPosSum; a collision without CollisionElement is skipped.
RECURSIVE SumCollisions(_, _, _)
SumCollisions(cs, pose, acc) ==
  IF cs = <<>> THEN acc
  ELSE IF ~Head(cs).element THEN SumCollisions(Tail(cs), pose, acc)
       ELSE SumCollisions(Tail(cs), pose,
              [volumeSum |-> DAdd(acc.volumeSum, CollisionVolume(Head(cs))),
               weightedPosSum |->
                 V3Add(acc.weightedPosSum,
                       V3Scale(CollisionVolume(Head(cs)),
                               CollisionWorldPos(Head(cs), pose)))])

\* Lines 172-175: the entry of volPropsMap for one link.
LinkVolumeProperties(cs, pose) ==
  LET sums == SumCollisions(cs, pose,
                [volumeSum |-> Fin(0), weightedPosSum |-> V3Zero])
  IN [cov |-> V3Sub(V3Div(sums.weightedPosSum, sums.volumeSum), pose.pos),
      volume |-> sums.volumeSum]

\* Lines 180-195: the gravity pointer after the lookup of the world.
ConfigureGravity(old, ents, g) ==
  IF WorldEntity \notin ents THEN old
  ELSE IF g = NoComponent THEN "nullptr" ELSE "world"

BuoyancyConfigure(_entity, sdfDensity) ==
  /\ ~buoyancyConfigured
  /\ ~crashed
  /\ buoyancyConfigured' = TRUE
  /\ buoyancyLast' = "Configure"
  /\ buoyancyModel' = _entity
  /\ gravityAtConfigure' = worldGravity
  /\ validAtConfigure' = ModelValid(_entity, entities)
  /\ wrenchCalls' = {}
  /\ IF ~ModelValid(_entity, entities)
     THEN UNCHANGED <<fluidDensity, volPropsMap, gravity>>
     ELSE /\ fluidDensity' =
               IF sdfDensity # 0 THEN sdfDensity ELSE fluidDensity
          /\ volPropsMap' =
               [l \in DOMAIN volPropsMap \cup ChildLinks(_entity, entities) |->
                  IF l \in ChildLinks(_entity, entities)
                  THEN LinkVolumeProperties(scene.collisions[l], linkPose[l])
                  ELSE volPropsMap[l]]
          /\ gravity' = ConfigureGravity(gravity, entities, worldGravity)
  /\ UNCHANGED <<scene, worldGravity, linkPose, wrenchCmd, crashed>>
  /\ UNCHANGED <<vcVars, raceVars, guiVars>>

(***************************************************************************)
(* Buoyancy::PreUpdate                                                     *)
(***************************************************************************)
\* A PreUpdate that looks the gravity component up again when it has none.
PreUpdateGravityLooksUpAgain ==
  IF worldGravity # NoComponent THEN "world" ELSE gravity

\* A loop over the links that have an entry in the cache.
BuoyancyLinksFromCache == DOMAIN volPropsMap

\* Lines 207-208: the links PreUpdate asks the store for on every tick.
BuoyancyLinks == ChildLinks(buoyancyModel, entities)

\* Line 202: the pointer PreUpdate tests before anything else.
PreUpdateGravity == gravity

\* volPropsMap[link]: std::map::operator[] adds a default entry for a key
\* that is not there.
VolPropsAfterLookup(vp, ls) ==
  [l \in DOMAIN vp \cup ls |->
     IF l \in DOMAIN vp THEN vp[l] ELSE DefaultVolumeProperties]

\* A force that points along gravity instead of against it.
BuoyancyForceAlongGravity(density, volume, g) ==
  V3Scale(DMul(Fin(density), volume), g)

\* Lines 219-220: -fluidDensity * volume * gravity->Data()
BuoyancyForce(density, volume, g) ==
  V3Scale(DMul(DNeg(Fin(density)), volume), g)

\* Lines 227-234: the wrench of one link whose centre of mass is at `com`.
LinkWrench(props, density, g, pose, com) ==
  LET buoyancy == BuoyancyForce(density, props.volume, g)
      offset == V3Sub(props.cov, com)
      offsetWorld == RotateVector(pose.rot, offset)
  IN [force |-> buoyancy, torque |-> V3Cross(offsetWorld, buoyancy)]

\* The links the loop visits before it meets one without Inertial.
BeforeFirstMissing(ls, inertial) ==
  {l \in ls : \A k \in ls : inertial[k] = NoComponent => l < k}

\* A loop that adds the new wrench to the one a link already has.
WrenchWritesAccumulate(store, ls, vp, garbage) ==
  [e \in EntityIds |->
     IF e \in ls
     THEN LET w == LinkWrench(vp[e], fluidDensity, worldGravity, linkPose[e],
                              IF scene.inertial[e] = NoComponent THEN garbage
                              ELSE scene.inertial[e])
          IN IF store[e] = NoWrench THEN w
             ELSE [force |-> V3Add(store[e].force, w.force),
                   torque |-> V3Add(store[e].torque, w.torque)]
     ELSE store[e]]

\* The store after the loop has written the wrenches of the links `ls`;
\* `garbage` is what a link without Inertial is read as.
WrenchWrites(store, ls, vp, garbage) ==
  [e \in EntityIds |->
     IF e \in ls
     THEN LinkWrench(vp[e], fluidDensity, worldGravity, linkPose[e],
                     IF scene.inertial[e] = NoComponent THEN garbage
                     ELSE scene.inertial[e])
     ELSE store[e]]

BuoyancyPreUpdate(crash, garbage) ==
  /\ buoyancyConfigured
  /\ ~crashed
  /\ buoyancyLast' = "PreUpdate"
  /\ IF PreUpdateGravity = "nullptr"
     THEN /\ wrenchCalls' = {}
          /\ UNCHANGED <<volPropsMap, wrenchCmd, crashed>>
     ELSE LET ls == BuoyancyLinks
              missing == {l \in ls : scene.inertial[l] = NoComponent}
              done == IF missing # {} /\ crash
                      THEN BeforeFirstMissing(ls, scene.inertial)
                      ELSE ls
              \* the link the process dies at was looked up as well
              looked == IF missing # {} /\ crash
                        THEN done \cup {l \in missing :
                                          \A k \in missing : l <= k}
                        ELSE ls
          IN /\ crashed' = (missing # {} /\ crash)
             /\ volPropsMap' = VolPropsAfterLookup(volPropsMap, looked)
             /\ wrenchCmd' = WrenchWrites(wrenchCmd, done, volPropsMap',
                                          garbage)
             /\ wrenchCalls' =
                  {EcmCall(wrenchCmd, l, "ExternalWorldWrenchCmd") :
                     l \in done}
  /\ UNCHANGED <<scene, worldGravity, linkPose, buoyancyModel, gravity,
                 fluidDensity, buoyancyConfigured, gravityAtConfigure,
                 validAtConfigure>>
  /\ UNCHANGED <<vcVars, raceVars, guiVars>>

(***************************************************************************)
(* The world around Buoyancy.                                              *)
(***************************************************************************)
\* The physics step moves a link.
SetLinkPose(l, pose) ==
  /\ ~crashed
  /\ l \in entities
  /\ linkPose[l] # pose
  /\ linkPose' = [linkPose EXCEPT ![l] = pose]
  /\ UNCHANGED <<scene, worldGravity, wrenchCmd, buoyancyModel, gravity,
                 fluidDensity, volPropsMap, buoyancyConfigured, crashed,
                 buoyancyLast, wrenchCalls, gravityAtConfigure,
                 validAtConfigure>>
  /\ UNCHANGED <<vcVars, raceVars, guiVars>>

\* The world's gravity component is created or given another value.
SetWorldGravity(g) ==
  /\ ~crashed
  /\ WorldEntity \in entities
  /\ worldGravity # g
  /\ worldGravity' = g
  /\ UNCHANGED <<scene, linkPose, wrenchCmd, buoyancyModel, gravity,
                 fluidDensity, volPropsMap, buoyancyConfigured, crashed,
                 buoyancyLast, wrenchCalls, gravityAtConfigure,
                 validAtConfigure>>
  /\ UNCHANGED <<vcVars, raceVars, guiVars>>

(***************************************************************************)
(* SpecBuoyancy: the handlers of Buoyancy, one action each.                *)
(***************************************************************************)
InitBuoyancyWorld ==
  /\ entities \in {{WorldEntity, ModelEntity, LinkEntityA, LinkEntityAB},
                   {WorldEntity, ModelEntity, LinkEntityA},
                   {ModelEntity, LinkEntityA, LinkEntityAB}}
  /\ InitVelocityControl
  /\ InitThreads
  /\ InitBuoyancy
  /\ WorldEntity \notin entities => worldGravity = NoComponent
  /\ GuiNotLoaded

NextBuoyancy ==
  \/ \E e \in {ModelEntity, LinkEntityA} : \E d \in SdfFluidDensities :
       BuoyancyConfigure(e, d)
  \/ \E crash \in BOOLEAN : \E garbage \in GarbagePositions :
       BuoyancyPreUpdate(crash, garbage)
  \/ \E l \in LinkEntities : \E pose \in Poses : SetLinkPose(l, pose)
  \/ \E g \in Gravities : SetWorldGravity(g)
  \/ ~crashed /\ \E e \in LinkEntities : CreateLink(e)
  \/ ~crashed /\ DestroyModel

SpecBuoyancy == InitBuoyancyWorld /\ [][NextBuoyancy]_vars

(***************************************************************************)
(* JointsModel: AddJoint, RemoveJoint, Clear                               *)
(***************************************************************************)
nonGuiVars == <<vcVars, raceVars, buoyVars>>

\* new QStandardItem(QString::number(_entity))
Item(_entity) == [text |-> _entity]

\* m[k] = v
MapAssign(m, k, v) ==
  [x \in DOMAIN m \cup {k} |-> IF x = k THEN v ELSE m[x]]

\* m.erase(k)
MapErase(m, k) == [x \in DOMAIN m \ {k} |-> m[x]]

\* QStandardItem::row(): the index of the item under the root, or 0 (one
\* below the first row) when it is not there.
RowOf(rws, item) ==
  IF \E i \in 1..Len(rws) : rws[i] = item
  THEN CHOOSE i \in 1..Len(rws) :
         rws[i] = item /\ \A j \in 1..(i - 1) : rws[j] # item
  ELSE 0

\* removeRow(row): nothing happens for a row that does not exist.
RemoveRow(rws, row) ==
  IF row \in 1..Len(rws)
  THEN SubSeq(rws, 1, row - 1) \o SubSeq(rws, row + 1, Len(rws))
  ELSE rws

\* An AddJoint that appends a row for an entity it already lists.
AddJointRowsAlways(its, rws, _entity) == Append(rws, Item(_entity))

\* Lines 76-89: the rows, the map and the return value of AddJoint.
AddJointRows(its, rws, _entity) ==
  IF _entity \in DOMAIN its THEN rws ELSE Append(rws, Item(_entity))
AddJointItems(its, _entity) ==
  IF _entity \in DOMAIN its THEN its
  ELSE MapAssign(its, _entity, Item(_entity))
AddJointReturn(its, _entity) ==
  IF _entity \in DOMAIN its THEN its[_entity] ELSE Item(_entity)

\* Line 103: the rows after RemoveJoint's removeRow.
RemoveJointRows(its, rws, _entity) ==
  IF _entity \in DOMAIN its THEN RemoveRow(rws, RowOf(rws, its[_entity]))
  ELSE rws
\* Line 104
RemoveJointItems(its, _entity) ==
  IF _entity \in DOMAIN its THEN MapErase(its, _entity) ELSE its

\* The part of the plugin that JointsModel's slots leave alone.
controllerVars == <<joints, modelEntity, modelName, locked, guiQueue, guiPc,
                    guiArg, updPc, jointEntities, updTodo, updIter, updTorn>>

AddJoint(_entity) ==
  /\ rows' = AddJointRows(items, rows, _entity)
  /\ items' = AddJointItems(items, _entity)
  /\ lastReturn' = <<AddJointReturn(items, _entity)>>
  /\ UNCHANGED <<controllerVars, nonGuiVars>>

RemoveJoint(_entity) ==
  /\ rows' = RemoveJointRows(items, rows, _entity)
  /\ items' = RemoveJointItems(items, _entity)
  /\ lastReturn' = <<>>
  /\ UNCHANGED <<controllerVars, nonGuiVars>>

Clear ==
  /\ rows' = SubSeq(rows, Len(rows) + 1, Len(rows))
  /\ items' = EmptyMap
  /\ lastReturn' = <<>>
  /\ UNCHANGED <<controllerVars, nonGuiVars>>

(***************************************************************************)
(* SpecJointsModel: the slots of JointsModel called in any order.          *)
(***************************************************************************)
InitJoints ==
  /\ entities = {WorldEntity, ModelEntity, LinkEntityA}
  /\ InitVelocityControl
  /\ InitThreads
  /\ BuoyancyNotLoaded
  /\ joints = {JointEntityFixed, JointEntityNoType}
  /\ InitJointPositionController

NextJointsModel ==
  \/ \E e \in JointIds : AddJoint(e)
  \/ \E e \in JointIds : RemoveJoint(e)
  \/ Clear

SpecJointsModel == InitJoints /\ [][NextJointsModel]_vars

(***************************************************************************)
(* JointPositionController::Update, on the thread that runs the GUI        *)
(* systems.  QMetaObject::invokeMethod puts a call into the Qt thread's    *)
(* event queue; with Qt::BlockingQueuedConnection the caller waits until   *)
(* the Qt thread has run it, with Qt::QueuedConnection it goes on.         *)
(***************************************************************************)
Call(op, _entity) == [op |-> op, e |-> _entity]
Calls == {Call(op, e) : op \in {"AddJoint", "RemoveJoint"}, e \in JointIds}
           \cup {Call("Clear", kNullEntity)}

\* The process is running: no uncaught exception, no crash.
Alive == updPc # "dead"

\* The first of the entities a loop has left to visit.
FirstOf(es) == CHOOSE e \in es : \A x \in es : e <= x

\* EntitiesByComponents(Joint(), ParentEntity(modelEntity))
JointsOf(mdl, js) == IF mdl = ModelEntity THEN js ELSE {}

\* Lines 185-197: the joints the first loop passes over.
SkippedJoint(e) ==
  IF ~HasJointType(e) THEN TRUE
  ELSE JointTypeOf(e) \in {"INVALID", "BALL", "FIXED"}

\* Lines 164-173: Update reads the inspected entity; without a model it has
\* Clear run on the Qt thread and waits.
UpdateBegin ==
  /\ Alive
  /\ updPc = "idle"
  /\ IF modelEntity = kNullEntity \/ ~ModelValid(modelEntity, entities)
     THEN /\ Len(guiQueue) < MaxQueue
          /\ guiQueue' = Append(guiQueue, Call("Clear", kNullEntity))
          /\ updPc' = "wait_clear"
     ELSE /\ updPc' = "name"
          /\ UNCHANGED guiQueue
  /\ UNCHANGED <<joints, modelEntity, modelName, locked, items, rows,
                 lastReturn, guiPc, guiArg, jointEntities, updTodo, updIter,
                 updTorn, nonGuiVars>>

\* Line 171, after Clear has returned.
UpdateAfterClear ==
  /\ Alive
  /\ updPc = "cleared"
  /\ modelName' = StrNoModelSelected
  /\ updPc' = "idle"
  /\ UNCHANGED <<joints, modelEntity, locked, items, rows, lastReturn,
                 guiQueue, guiPc, guiArg, jointEntities, updTodo, updIter,
                 updTorn, nonGuiVars>>

\* Lines 175-180: Update reads the inspected entity again; value() of the
\* Name of an entity that has none throws.
UpdateName ==
  /\ Alive
  /\ updPc = "name"
  /\ IF modelEntity \notin entities
     THEN /\ updPc' = "dead"
          /\ UNCHANGED <<modelName, jointEntities, updTodo>>
     ELSE /\ modelName' = EntityName(modelEntity)
          /\ jointEntities' = JointsOf(modelEntity, joints)
          /\ updTodo' = JointsOf(modelEntity, joints)
          /\ updPc' = "list"
  /\ UNCHANGED <<joints, modelEntity, locked, items, rows, lastReturn,
                 guiQueue, guiPc, guiArg, updIter, updTorn, nonGuiVars>>

\* Lines 183-249, one round of the loop: a joint that is listed is looked up
\* in items, one that is not has AddJoint run on the Qt thread.
UpdateList ==
  /\ Alive
  /\ updPc = "list"
  /\ updTodo # {}
  /\ LET jointEntity == FirstOf(updTodo)
     IN /\ updTodo' = updTodo \ {jointEntity}
        /\ IF SkippedJoint(jointEntity) \/ jointEntity \in DOMAIN items
           THEN UNCHANGED <<guiQueue, updPc>>
           ELSE /\ Len(guiQueue) < MaxQueue
                /\ guiQueue' = Append(guiQueue, Call("AddJoint", jointEntity))
                /\ updPc' = "wait_add"
  /\ UNCHANGED <<joints, modelEntity, modelName, locked, items, rows,
                 lastReturn, guiPc, guiArg, jointEntities, updIter, updTorn,
                 nonGuiVars>>

\* Line 252: the second loop starts at items.begin().
UpdateListDone ==
  /\ Alive
  /\ updPc = "list"
  /\ updTodo = {}
  /\ updPc' = "iter"
  /\ updIter' = DOMAIN items
  /\ updTorn' = FALSE
  /\ UNCHANGED <<joints, modelEntity, modelName, locked, items, rows,
                 lastReturn, guiQueue, guiPc, guiArg, jointEntities, updTodo,
                 nonGuiVars>>

\* Lines 252-263, one round of the loop: RemoveJoint is queued for a listed
\* joint that is no longer among jointEntities, and Update goes on.
UpdateIter ==
  /\ Alive
  /\ updPc = "iter"
  /\ updIter # {}
  /\ LET jointEntity == FirstOf(updIter)
     IN /\ updIter' = updIter \ {jointEntity}
        /\ IF jointEntity \in jointEntities
           THEN UNCHANGED guiQueue
           ELSE /\ Len(guiQueue) < MaxQueue
                /\ guiQueue' =
                     Append(guiQueue, Call("RemoveJoint", jointEntity))
  /\ UNCHANGED <<joints, modelEntity, modelName, locked, items, rows,
                 lastReturn, guiPc, guiArg, updPc, jointEntities, updTodo,
                 updTorn, nonGuiVars>>

\* The loop ends and Update returns.
UpdateIterDone ==
  /\ Alive
  /\ updPc = "iter"
  /\ updIter = {}
  /\ updPc' = "idle"
  /\ updTorn' = FALSE
  /\ UNCHANGED <<joints, modelEntity, modelName, locked, items, rows,
                 lastReturn, guiQueue, guiPc, guiArg, jointEntities, updTodo,
                 updIter, nonGuiVars>>

\* The loop follows an iterator into a map node that the Qt thread erased
\* meanwhile: the process may die here.
UpdateIterDies ==
  /\ Alive
  /\ updPc = "iter"
  /\ updTorn
  /\ updPc' = "dead"
  /\ UNCHANGED <<joints, modelEntity, modelName, locked, items, rows,
                 lastReturn, guiQueue, guiPc, guiArg, jointEntities, updTodo,
                 updIter, updTorn, nonGuiVars>>

(***************************************************************************)
(* The Qt thread: the queued slots of JointsModel, eventFilter, SetLocked. *)
(***************************************************************************)
\* The event loop runs a queued AddJoint; the caller goes on with its loop.
QtAddJoint ==
  /\ Alive
  /\ guiPc = "idle"
  /\ guiQueue # <<>>
  /\ Head(guiQueue).op = "AddJoint"
  /\ guiQueue' = Tail(guiQueue)
  /\ rows' = AddJointRows(items, rows, Head(guiQueue).e)
  /\ items' = AddJointItems(items, Head(guiQueue).e)
  /\ lastReturn' = <<AddJointReturn(items, Head(guiQueue).e)>>
  /\ updPc' = "list"
  /\ UNCHANGED <<joints, modelEntity, modelName, locked, guiPc, guiArg,
                 jointEntities, updTodo, updIter, updTorn, nonGuiVars>>

\* The event loop runs a queued Clear; the caller goes on to line 171.
QtClear ==
  /\ Alive
  /\ guiPc = "idle"
  /\ guiQueue # <<>>
  /\ Head(guiQueue).op = "Clear"
  /\ guiQueue' = Tail(guiQueue)
  /\ rows' = SubSeq(rows, Len(rows) + 1, Len(rows))
  /\ items' = EmptyMap
  /\ lastReturn' = <<>>
  /\ updPc' = "cleared"
  /\ UNCHANGED <<joints, modelEntity, modelName, locked, guiPc, guiArg,
                 jointEntities, updTodo, updIter, updTorn, nonGuiVars>>

\* The event loop runs a queued RemoveJoint up to line 103: the row of a
\* listed joint is removed and the entry is about to be erased.
QtRemoveJointBegin ==
  /\ Alive
  /\ guiPc = "idle"
  /\ guiQueue # <<>>
  /\ Head(guiQueue).op = "RemoveJoint"
  /\ guiQueue' = Tail(guiQueue)
  /\ rows' = RemoveJointRows(items, rows, Head(guiQueue).e)
  /\ lastReturn' = <<>>
  /\ IF Head(guiQueue).e \in DOMAIN items
     THEN guiPc' = "erase" /\ guiArg' = Head(guiQueue).e
     ELSE UNCHANGED <<guiPc, guiArg>>
  /\ UNCHANGED <<joints, modelEntity, modelName, locked, items, updPc,
                 jointEntities, updTodo, updIter, updTorn, nonGuiVars>>

\* Line 104: this->items.erase(_entity)
QtRemoveJointEnd ==
  /\ Alive
  /\ guiPc = "erase"
  /\ items' = RemoveJointItems(items, guiArg)
  /\ guiPc' = "idle"
  /\ guiArg' = kNullEntity
  /\ updTorn' = (updTorn \/ updPc = "iter")
  /\ UNCHANGED <<joints, modelEntity, modelName, locked, rows, lastReturn,
                 guiQueue, updPc, jointEntities, updTodo, updIter,
                 nonGuiVars>>

\* The events the main window passes to the filter.
EntitiesSelected(data) == [type |-> "EntitiesSelected", data |-> data]
DeselectAllEntities == [type |-> "DeselectAllEntities", data |-> <<>>]
OtherEvent == [type |-> "Other", data |-> <<>>]
Events ==
  {EntitiesSelected(d) :
     d \in {<<>>, <<ModelEntity>>, <<LinkEntityA, ModelEntity>>}}
    \cup {DeselectAllEntities, OtherEvent}

\* A filter that does not look at the lock.
EventFilterAlwaysActive == TRUE

\* Line 269: if (!this->dataPtr->locked)
EventFilterActive == ~locked

\* Lines 269-289: the entity the filter leaves in modelEntity.
EventFilterEntity(old, _event) ==
  IF ~EventFilterActive THEN old
  ELSE IF _event.type = "EntitiesSelected" /\ _event.data # <<>>
       THEN Head(_event.data)
       ELSE IF _event.type = "DeselectAllEntities" THEN kNullEntity
            ELSE old

eventFilter(_event) ==
  /\ Alive
  /\ guiPc = "idle"
  /\ modelEntity' = EventFilterEntity(modelEntity, _event)
  /\ UNCHANGED <<joints, modelName, locked, items, rows, lastReturn,
                 guiQueue, guiPc, guiArg, updPc, jointEntities, updTodo,
                 updIter, updTorn, nonGuiVars>>

SetLocked(_locked) ==
  /\ Alive
  /\ guiPc = "idle"
  /\ locked' = _locked
  /\ UNCHANGED <<joints, modelEntity, modelName, items, rows, lastReturn,
                 guiQueue, guiPc, guiArg, updPc, jointEntities, updTodo,
                 updIter, updTorn, nonGuiVars>>

\* The server adds a revolute joint to the model or takes one away.
SetJoints(js) ==
  /\ Alive
  /\ joints # js
  /\ joints' = js
  /\ UNCHANGED <<modelEntity, modelName, locked, items, rows, lastReturn,
                 guiQueue, guiPc, guiArg, updPc, jointEntities, updTodo,
                 updIter, updTorn, nonGuiVars>>

\* The joint sets of the model: the fixed joint and the one without type
\* are always there.
JointSets ==
  {{JointEntityFixed, JointEntityNoType} \cup js :
     js \in SUBSET {JointEntityR1, JointEntityR2}}

(***************************************************************************)
(* SpecJoints: Update on its thread, the Qt thread, and the server.        *)
(***************************************************************************)
NextJoints ==
  \/ UpdateBegin
  \/ UpdateAfterClear
  \/ UpdateName
  \/ UpdateList
  \/ UpdateListDone
  \/ UpdateIter
  \/ UpdateIterDone
  \/ UpdateIterDies
  \/ QtAddJoint
  \/ QtClear
  \/ QtRemoveJointBegin
  \/ QtRemoveJointEnd
  \/ \E ev \in Events : eventFilter(ev)
  \/ \E b \in BOOLEAN : SetLocked(b)
  \/ \E js \in JointSets : SetJoints(js)

SpecJoints == InitJoints /\ [][NextJoints]_vars

(***************************************************************************)
(* Properties of Spec.                                                     *)
(***************************************************************************)
\* One link entity's two command components hold the twist `msg`.
HoldsTwist(e, msg) ==
  /\ linearVelocityCmd[e] = msg.linear
  /\ angularVelocityCmd[e] = msg.angular

\* C1: after model-level messages, then a non-paused PostUpdate, then a
\* non-paused PreUpdate, the model's LinearVelocityCmd and AngularVelocityCmd
\* hold the linear and angular vectors of the last message delivered.
C1_LastModelCmdApplied ==
  (cycle = 2 /\ lastCmd # <<>> /\ model \in entities)
    => HoldsTwist(model, lastCmd[1])

\* C1 witness: the second message was the last one and has been applied.
C1_Witness ==
  /\ cycle = 2
  /\ lastCmd = <<TwistOf(2)>>
  /\ model \in entities
  /\ HoldsTwist(model, TwistOf(2))
  /\ lastStep = Step("PreUpdate", FALSE, FALSE)

\* C2: when two or more messages came on a declared link's channel, the
\* PostUpdate+PreUpdate cycle that follows writes the most recent of them to
\* that link's velocity-command components.
C2_LastLinkCmdApplied ==
  (/\ cycle = 2
   /\ lastLinkCmd # <<>>
   /\ lastLinkCmd[1].count = 2
   /\ WatchedLink \in DOMAIN links
   /\ links[WatchedLink] \in entities)
    => HoldsTwist(links[WatchedLink], lastLinkCmd[1].msg)

\* What the system holds for link name n: buffered command and cached target.
HeldFor(n, lv, lin, ang) ==
  <<IF n \in DOMAIN lv THEN <<lv[n]>> ELSE <<>>,
    IF n \in DOMAIN lin THEN <<lin[n]>> ELSE <<>>,
    IF n \in DOMAIN ang THEN <<ang[n]>> ELSE <<>>>>

\* C3: a message on the channel of link B changes neither the buffered
\* command nor the cached target of a declared link A different from B.
C3_NoCrossTalk ==
  [][\A m \in Msgs : \A t \in AllLinkTopics :
       OnLinkCmdVel(m, t) =>
         \A i \in 1..Len(linkNames) :
           (LinkTopicOf(ModelName, linkNames[i]) # t) =>
             HeldFor(linkNames[i], linkVels', linearVelocities',
                     angularVelocities')
             = HeldFor(linkNames[i], linkVels, linearVelocities,
                       angularVelocities)]_vars

\* C8: once the owning model entity is destroyed, PreUpdate and PostUpdate
\* make no component call at all.
C8_DestroyedModelNoCalls ==
  (/\ lastStep.op \in {"PreUpdate", "PostUpdate"}
   /\ model = ModelEntity
   /\ ModelEntity \notin entities)
    => ecmCalls = {}

\* C9: after a Configure with an entity that is not a valid model (the only
\* Configure that subscribes to nothing), no channel is subscribed and no
\* entity ever gets or changes a velocity-command component.
C9_InvalidConfigureInert ==
  (configured /\ subscriptions = {})
    => /\ ecmCalls = {}
       /\ \A e \in EntityIds :
            /\ angularVelocityCmd[e] = NoComponent
            /\ linearVelocityCmd[e] = NoComponent

\* C10 as stated: a PreUpdate whose dt is negative writes no component and
\* resolves no link, paused or not.
C10_RewindIsNoOp ==
  [][(\E paused \in BOOLEAN : PreUpdate(paused, TRUE))
       => (ecmCalls' = {} /\ links' = links)]_vars

\* C10 amended: a PreUpdate whose dt is negative does what any PreUpdate
\* does: nothing when paused; when not paused it sets both command
\* components of the model entity to the cached target and has resolved
\* every declared link name the model has a link for.
C10_RewindOnlyWarns ==
  (lastStep.op = "PreUpdate" /\ lastStep.dtNeg)
    => IF lastStep.paused
       THEN ecmCalls = {}
       ELSE /\ \E c \in ecmCalls : c[2] = model /\ c[3] = "AngularVelocityCmd"
            /\ \E c \in ecmCalls : c[2] = model /\ c[3] = "LinearVelocityCmd"
            /\ angularVelocityCmd[model] = angularVelocity
            /\ linearVelocityCmd[model] = linearVelocity
            /\ \A i \in 1..Len(linkNames) :
                 LinkByName(entities, model, linkNames[i]) # kNullEntity
                   => linkNames[i] \in DOMAIN links

\* C10 witness: a non-paused PreUpdate with negative dt wrote a received
\* command to the model and resolved link a.
C10_Witness ==
  /\ lastStep = Step("PreUpdate", FALSE, TRUE)
  /\ HoldsTwist(model, TwistOf(1))
  /\ NameA \in DOMAIN links
  /\ ecmCalls # {}

(***************************************************************************)
(* Properties of SpecRace.                                                 *)
(***************************************************************************)
\* The targets the system holds now.
CachedNow ==
  Cached(linearVelocity, angularVelocity, linearVelocities,
         angularVelocities)

\* The simulation thread is inside PreUpdate, or has just completed one.
InPreUpdate == simPc \in {"pre_linear", "pre_links"}
PreUpdateDone == simPc = "idle" /\ simLast = "pre"

\* The links' components hold the link targets of `c` for every resolved
\* link that has one.
LinksHold(c) ==
  \A n \in DOMAIN links :
    /\ n \in DOMAIN c.angulars => angularVelocityCmd[links[n]] = c.angulars[n]
    /\ n \in DOMAIN c.linears => linearVelocityCmd[links[n]] = c.linears[n]

C5_TargetFromOneMessage ==
  (simPc \in {"idle", "post_links", "post_iter", "pre_linear", "pre_links"})
    => \E m \in Msgs \cup {TwistZero} :
         linearVelocity = m.linear /\ angularVelocity = m.angular

\* A transport thread is about to insert into linkVels.
Writing(t) ==
  /\ cb[t].pc = "visit"
  /\ StringFind(cb[t].topic, linkNames[cb[t].i])

\* C6: no link callback writes linkVels while another callback writes it or
\* while UpdateLinkVelocity on the simulation thread iterates it.
C6_LinkVelsExclusive ==
  /\ \A t1 \in CbThreads : \A t2 \in CbThreads \ {t1} :
       ~(Writing(t1) /\ Writing(t2))
  /\ \A t \in CbThreads : ~(Writing(t) /\ simPc = "post_iter")

(***************************************************************************)
(* Properties of SpecBuoyancy.                                             *)
(***************************************************************************)
\* The links of the model whose collision shapes have total volume zero and
\* that have an Inertial.
ZeroVolumeLinks ==
  {l \in ChildLinks(buoyancyModel, entities) :
     /\ scene.inertial[l] # NoComponent
     /\ SumCollisions(scene.collisions[l], linkPose[l],
          [volumeSum |-> Fin(0), weightedPosSum |-> V3Zero]).volumeSum
        = Fin(0)}

\* C7: for a link whose shapes have total volume zero, Configure has divided
\* nothing by zero (the cached offset is finite) and the wrench PreUpdate
\* writes has force and torque exactly zero.
C7_ZeroVolumeZeroWrench ==
  (buoyancyLast = "PreUpdate" /\ gravity # "nullptr" /\ ~crashed)
    => \A l \in ZeroVolumeLinks :
         /\ V3IsFinite(volPropsMap[l].cov)
         /\ wrenchCmd[l] = [force |-> V3Zero, torque |-> V3Zero]

\* C11: the volume-properties cache is written only by Configure: a
\* PreUpdate adds no entry, removes none and changes none, also when the
\* model has a link at tick time that had no entry when Configure ran.
C11_CacheWrittenOnlyByConfigure ==
  [][(\E crash \in BOOLEAN : \E garbage \in GarbagePositions :
        BuoyancyPreUpdate(crash, garbage))
       => volPropsMap' = volPropsMap]_vars

\* The links PreUpdate has written a wrench for from an Inertial it read.
LinksWithInertial(ents) ==
  {l \in ChildLinks(buoyancyModel, ents) : scene.inertial[l] # NoComponent}

\* C12: the force every PreUpdate writes is computed from the value the
\* world's gravity component had when Configure ran, also when the
\* component has been given another value since.
C12_ForceFromConfigureGravity ==
  [][(/\ \E crash \in BOOLEAN : \E garbage \in GarbagePositions :
           BuoyancyPreUpdate(crash, garbage)
      /\ gravity # "nullptr"
      /\ ~crashed')
       => \A l \in LinksWithInertial(entities) :
            wrenchCmd'[l].force
              = BuoyancyForce(fluidDensity, volPropsMap'[l].volume,
                              gravityAtConfigure)]_vars

\* Configure ran and failed: the entity was not a valid model, there was no
\* world entity, or the world had no gravity component.
ConfigureFailed ==
  /\ buoyancyConfigured
  /\ \/ ~validAtConfigure
     \/ WorldEntity \notin entities
     \/ gravityAtConfigure = NoComponent

\* C13: after a failed Configure the engine is inert for good: no entity
\* ever has an external-wrench component and no PreUpdate ends the process,
\* also when the world gets a gravity component later.
C13_FailedConfigureInert ==
  ConfigureFailed
    => /\ \A e \in EntityIds : wrenchCmd[e] = NoWrench
       /\ wrenchCalls = {}
       /\ ~crashed

\* C13 witness: Configure of a valid model found no gravity component, the
\* world got one afterwards, a link has moved and a PreUpdate has run.
C13_Witness ==
  /\ ConfigureFailed
  /\ validAtConfigure
  /\ ModelValid(buoyancyModel, entities)
  /\ WorldEntity \in entities
  /\ worldGravity # NoComponent
  /\ buoyancyLast = "PreUpdate"
  /\ \A e \in EntityIds : wrenchCmd[e] = NoWrench

\* A PreUpdate of an engine whose gravity is resolved runs to its end.
PreUpdateCompletes ==
  /\ \E crash \in BOOLEAN : \E garbage \in GarbagePositions :
       BuoyancyPreUpdate(crash, garbage)
  /\ gravity # "nullptr"
  /\ ~crashed'

\* -(fluidDensity * volume * g), component by component.
ArchimedesForce(density, volume, g) ==
  [i \in 1..3 |-> DNeg(DMul(DMul(Fin(density), volume), g[i]))]

\* The links whose only collision shape is a box.
SingleBoxLinks(ents) ==
  {l \in LinksWithInertial(ents) :
     /\ Len(scene.collisions[l]) = 1
     /\ scene.collisions[l][1].type = "BOX"
     /\ scene.collisions[l][1].element}

\* C17: the wrench PreUpdate writes for a link has
\* force = -fluidDensity * volume * gravity and
\* torque = cross(rotate(cov - centre of mass, current orientation), force)
\* with volume and cov from the cache; for a single box the force is
\* fluidDensity * boxVolume * |gravity| upwards, and the torque is zero when
\* the cached centre of volume is the centre of mass.
C17_WrenchFormula ==
  [][PreUpdateCompletes
       => /\ \A l \in LinksWithInertial(entities) :
               LET f == ArchimedesForce(fluidDensity, volPropsMap'[l].volume,
                                        worldGravity)
                   r == RotateVector(linkPose[l].rot,
                          V3Sub(volPropsMap'[l].cov, scene.inertial[l]))
               IN /\ wrenchCmd'[l].force = f
                  /\ wrenchCmd'[l].torque = V3Cross(r, f)
          /\ \A l \in SingleBoxLinks(entities) \cap DOMAIN volPropsMap :
               /\ wrenchCmd'[l].force
                    = V3(0, 0, fluidDensity * scene.collisions[l][1].volume
                                 * (0 - worldGravity[3].v))
               /\ volPropsMap[l].cov = scene.inertial[l]
                    => wrenchCmd'[l].torque = V3Zero]_vars

\* C17 witness: a single box of volume 8 in a fluid of density 2 under
\* gravity -10 is pushed up with 160 and no torque, while it is turned.
C17_Witness ==
  /\ buoyancyLast = "PreUpdate"
  /\ scene.collisions[LinkEntityA] = <<BoxAtOrigin>>
  /\ fluidDensity = 2
  /\ worldGravity = V3(0, 0, 0 - 10)
  /\ linkPose[LinkEntityA].rot = "z90"
  /\ wrenchCmd[LinkEntityA] = [force |-> V3(0, 0, 160), torque |-> V3Zero]

\* C18: after a PreUpdate every link of the model has an external-wrench
\* component holding the wrench of this tick: a component that was there is
\* assigned (not added to), a missing one is created, and no other entity's
\* component is touched.
C18_WrenchOverwritten ==
  [][PreUpdateCompletes
       => /\ \A l \in ChildLinks(buoyancyModel, entities) :
               /\ wrenchCmd'[l] # NoWrench
               /\ (IF wrenchCmd[l] = NoWrench
                   THEN <<"CreateComponent", l, "ExternalWorldWrenchCmd">>
                   ELSE <<"Assign", l, "ExternalWorldWrenchCmd">>)
                    \in wrenchCalls'
               /\ l \in LinksWithInertial(entities) =>
                    wrenchCmd'[l]
                      = LinkWrench(volPropsMap'[l], fluidDensity,
                                   worldGravity, linkPose[l],
                                   scene.inertial[l])
          /\ Cardinality(wrenchCalls')
               = Cardinality(ChildLinks(buoyancyModel, entities))
          /\ \A e \in EntityIds \ ChildLinks(buoyancyModel, entities) :
               wrenchCmd'[e] = wrenchCmd[e]]_vars

\* C18 witness: the last PreUpdate assigned link a's existing component and
\* created the one of link ab, and link a's wrench is that of the changed
\* gravity alone.
C18_Witness ==
  /\ buoyancyLast = "PreUpdate"
  /\ ~crashed
  /\ wrenchCalls = {<<"Assign", LinkEntityA, "ExternalWorldWrenchCmd">>,
                    <<"CreateComponent", LinkEntityAB,
                      "ExternalWorldWrenchCmd">>}
  /\ worldGravity # gravityAtConfigure
  /\ scene.collisions[LinkEntityA] = <<BoxAtOrigin>>
  /\ wrenchCmd[LinkEntityA].force
       = V3(0, 0, fluidDensity * 8 * (0 - worldGravity[3].v))

\* A shape that adds its volume: it has a collision element and is a box, a
\* sphere, a cylinder or a mesh with a valid file name that loads.
ContributesVolume(c) ==
  /\ c.element
  /\ \/ c.type \in {"BOX", "SPHERE", "CYLINDER"}
     \/ c.type = "MESH" /\ c.validFilename /\ c.loads

RECURSIVE ValidVolumeSum(_)
ValidVolumeSum(cs) ==
  IF cs = <<>> THEN 0
  ELSE (IF ContributesVolume(Head(cs)) THEN Head(cs).volume ELSE 0)
       + ValidVolumeSum(Tail(cs))

\* C20: Configure of a valid model caches, for every link of the model, the
\* sum of the volumes of its valid shapes: a plane, a mesh that does not
\* load or has an invalid name, an unknown geometry and a shape without
\* collision element add zero and stop neither the shapes nor the links that
\* follow.
C20_InvalidShapesAddZero ==
  [][\A e \in EntityIds : \A d \in SdfFluidDensities :
       (BuoyancyConfigure(e, d) /\ ModelValid(e, entities))
         => \A l \in ChildLinks(e, entities) :
              /\ l \in DOMAIN volPropsMap'
              /\ volPropsMap'[l].volume
                   = Fin(ValidVolumeSum(scene.collisions[l]))]_vars

\* C20 witness: link a has a mesh with an invalid name, a cylinder and a
\* shape without element, link ab a mesh that does not load and one that
\* does; the cache holds the cylinder's and the loaded mesh's volume.
C20_Witness ==
  /\ buoyancyLast = "Configure"
  /\ scene.collisions[LinkEntityA] = <<MeshBadName, CylinderOnY, NoElement>>
  /\ scene.collisions[LinkEntityAB] = <<MeshUnloadable, MeshShape>>
  /\ LinkEntityA \in DOMAIN volPropsMap
  /\ LinkEntityAB \in DOMAIN volPropsMap
  /\ volPropsMap[LinkEntityA].volume = Fin(1)
  /\ volPropsMap[LinkEntityAB].volume = Fin(3)

(***************************************************************************)
(* More properties of Spec.                                                *)
(***************************************************************************)
\* The step is a PreUpdate that is not paused.
RunningPreUpdate == \E dtNeg \in BOOLEAN : PreUpdate(FALSE, dtNeg)

\* The configured link names.
Declared(names) == {names[i] : i \in 1..Len(names)}

\* C14: a declared link name that is unresolved is looked up by every
\* non-paused PreUpdate and by nothing else; it becomes resolved, to the
\* model's link of that name, on the first such PreUpdate on which that link
\* exists; a resolved name keeps its entity for good; and every component
\* call is for the model entity or for the entity of a resolved name.
C14_LinkResolution ==
  [][/\ \A n \in DOMAIN links : n \in DOMAIN links' /\ links'[n] = links[n]
     /\ DOMAIN links' \subseteq Declared(linkNames')
     /\ \A n \in Declared(linkNames) \ DOMAIN links :
          IF RunningPreUpdate /\ LinkByName(entities, model, n) # kNullEntity
          THEN /\ n \in DOMAIN links'
               /\ links'[n] = LinkByName(entities, model, n)
               /\ EntityName(links'[n]) = n
          ELSE n \notin DOMAIN links'
     /\ \A c \in ecmCalls' :
          c[2] = model \/ \E n \in DOMAIN links' : links'[n] = c[2]]_vars

\* C14 witness: link ab was created after the model was configured and both
\* declared names are resolved.
C14_Witness ==
  /\ lastStep = Step("PreUpdate", FALSE, FALSE)
  /\ linkNames = <<NameA, NameAB>>
  /\ DOMAIN links = {NameA, NameAB}
  /\ links[NameA] = LinkEntityA
  /\ links[NameAB] = LinkEntityAB

\* C15: every non-paused PreUpdate leaves the cached model target in the
\* model's two command components, creating a component that is absent and
\* assigning one that is there, whatever they held before; the cached target
\* changes only in a non-paused PostUpdate, to the buffered message, and the
\* buffered message changes only when a message arrives.
C15_LevelTriggered ==
  [][/\ RunningPreUpdate =>
          /\ angularVelocityCmd'[model] = angularVelocity
          /\ linearVelocityCmd'[model] = linearVelocity
          /\ <<IF angularVelocityCmd[model] = NoComponent
               THEN "CreateComponent" ELSE "Assign",
               model, "AngularVelocityCmd">> \in ecmCalls'
          /\ <<IF linearVelocityCmd[model] = NoComponent
               THEN "CreateComponent" ELSE "Assign",
               model, "LinearVelocityCmd">> \in ecmCalls'
     /\ (linearVelocity' # linearVelocity
         \/ angularVelocity' # angularVelocity) =>
          /\ PostUpdate(FALSE)
          /\ linearVelocity' = targetVel.linear
          /\ angularVelocity' = targetVel.angular
     /\ targetVel' # targetVel => \E m \in Msgs : OnCmdVel(m)]_vars

\* C15 witness: no message came since the command was last applied, another
\* system removed the model's angular command and overwrote the linear one,
\* and the PreUpdate that followed has put the command back.
C15_Witness ==
  /\ lastStep = Step("PreUpdate", FALSE, FALSE)
  /\ model = ModelEntity
  /\ ecmCalls = {<<"CreateComponent", ModelEntity, "AngularVelocityCmd">>,
                 <<"Assign", ModelEntity, "LinearVelocityCmd">>}
  /\ lastCmd = <<TwistOf(1)>>
  /\ HoldsTwist(ModelEntity, TwistOf(1))

C19_LinkWrittenIffCached ==
  [][RunningPreUpdate =>
       \A n \in DOMAIN links' :
         /\ (n \in DOMAIN linearVelocities) = (n \in DOMAIN angularVelocities)
         /\ n \in DOMAIN linearVelocities /\ n \in DOMAIN angularVelocities =>
              /\ angularVelocityCmd'[links'[n]] = angularVelocities[n]
              /\ linearVelocityCmd'[links'[n]] = linearVelocities[n]
              /\ \E c \in ecmCalls' :
                   c[2] = links'[n] /\ c[3] = "AngularVelocityCmd"
              /\ \E c \in ecmCalls' :
                   c[2] = links'[n] /\ c[3] = "LinearVelocityCmd"
         /\ n \notin DOMAIN linearVelocities
            /\ n \notin DOMAIN angularVelocities =>
              /\ angularVelocityCmd'[links'[n]] = angularVelocityCmd[links'[n]]
              /\ linearVelocityCmd'[links'[n]] = linearVelocityCmd[links'[n]]
              /\ \A c \in ecmCalls' : c[2] # links'[n]]_vars

\* C19 witness: links a and ab are resolved; a has a cached target and
\* holds it, ab has none and has no command component.
C19_Witness ==
  /\ lastStep = Step("PreUpdate", FALSE, FALSE)
  /\ DOMAIN links = {NameA, NameAB}
  /\ DOMAIN linearVelocities = {NameA}
  /\ linearVelocityCmd[links[NameA]] = linearVelocities[NameA]
  /\ angularVelocityCmd[links[NameA]] = angularVelocities[NameA]
  /\ linearVelocities[NameA] = TwistOf(1).linear
  /\ linearVelocityCmd[links[NameAB]] = NoComponent
  /\ angularVelocityCmd[links[NameAB]] = NoComponent

(***************************************************************************)
(* More properties of SpecBuoyancy.                                        *)
(***************************************************************************)
\* C21: a PreUpdate that meets a link without Inertial does not fail: it
\* writes no wrench for that link and still writes the wrenches of the
\* model's other links.
C21_MissingInertialSkipped ==
  [][(/\ \E crash \in BOOLEAN : \E garbage \in GarbagePositions :
           BuoyancyPreUpdate(crash, garbage)
      /\ gravity # "nullptr")
       => /\ ~crashed'
          /\ \A l \in BuoyancyLinks :
               IF scene.inertial[l] = NoComponent
               THEN wrenchCmd'[l] = wrenchCmd[l]
               ELSE wrenchCmd'[l] # NoWrench]_vars

\* C22: once the owning model has been destroyed, a PreUpdate makes no
\* component call, changes no external-wrench component and does not end
\* the process.
C22_DestroyedModelNoWrench ==
  [][(/\ \E crash \in BOOLEAN : \E garbage \in GarbagePositions :
           BuoyancyPreUpdate(crash, garbage)
      /\ buoyancyModel = ModelEntity
      /\ ModelEntity \notin entities)
       => /\ wrenchCalls' = {}
          /\ wrenchCmd' = wrenchCmd
          /\ ~crashed']_vars

\* C22 witness: the engine was configured with gravity resolved and links
\* cached, the model was destroyed, and the PreUpdate after that made no
\* call.
C22_Witness ==
  /\ buoyancyLast = "PreUpdate"
  /\ buoyancyModel = ModelEntity
  /\ ModelEntity \notin entities
  /\ gravity = "world"
  /\ DOMAIN volPropsMap = LinkEntities
  /\ wrenchCalls = {}
  /\ \A e \in EntityIds : wrenchCmd[e] = NoWrench
  /\ ~crashed

(***************************************************************************)
(* The per-link maps of VelocityControl.                                   *)
(***************************************************************************)
\* C23: the cached linear and the cached angular link targets have the same
\* keys, every such key has a buffered message, and every key of the three
\* maps is a configured link name.
C23_LinkMapKeys ==
  /\ DOMAIN linearVelocities = DOMAIN angularVelocities
  /\ DOMAIN linearVelocities \subseteq DOMAIN linkVels
  /\ DOMAIN linkVels \subseteq Declared(linkNames)

\* C23 witness: links a and ab both have a buffered message, only a has
\* been cached, with both a linear and an angular target.
C23_Witness ==
  /\ linkNames = <<NameA, NameAB>>
  /\ DOMAIN linkVels = {NameA, NameAB}
  /\ DOMAIN linearVelocities = {NameA}
  /\ DOMAIN angularVelocities = {NameA}
  /\ lastStep.op = "other"

(***************************************************************************)
(* Properties of SpecJointsModel.                                          *)
(***************************************************************************)
\* The map has one entry per listed joint and the list one row per entry.
RowsMatchItems(its, rws) ==
  /\ Len(rws) = Cardinality(DOMAIN its)
  /\ {rws[i] : i \in 1..Len(rws)} = {its[e] : e \in DOMAIN its}
  /\ \A e \in DOMAIN its : its[e] = Item(e)

\* C25: after every AddJoint, RemoveJoint and Clear the item map has one
\* entry per listed joint and the list one row per entry; AddJoint of a
\* listed entity returns its item and adds no row, AddJoint of another adds
\* one row and one entry, RemoveJoint of an entity that is not listed
\* changes nothing, RemoveJoint of a listed one takes its row and its entry
\* away, and Clear leaves the map and the rows empty.
C25_RowsMatchItems ==
  [][/\ RowsMatchItems(items', rows')
     /\ \A e \in JointIds :
          /\ (AddJoint(e) /\ e \in DOMAIN items) =>
               /\ rows' = rows
               /\ items' = items
               /\ lastReturn' = <<items[e]>>
          /\ (AddJoint(e) /\ e \notin DOMAIN items) =>
               /\ rows' = Append(rows, items'[e])
               /\ DOMAIN items' = DOMAIN items \cup {e}
               /\ lastReturn' = <<items'[e]>>
          /\ (RemoveJoint(e) /\ e \notin DOMAIN items) =>
               /\ rows' = rows
               /\ items' = items
          /\ (RemoveJoint(e) /\ e \in DOMAIN items) =>
               /\ DOMAIN items' = DOMAIN items \ {e}
               /\ \A i \in 1..Len(rows') : rows'[i] # items[e]
     /\ Clear => items' = EmptyMap /\ rows' = <<>>]_vars

\* C25 witness: two joints were added, the first was removed and added
\* again, so its row now comes second.
C25_Witness ==
  /\ DOMAIN items = {JointEntityR1, JointEntityR2}
  /\ rows = <<Item(JointEntityR2), Item(JointEntityR1)>>
  /\ lastReturn = <<Item(JointEntityR1)>>


(***************************************************************************)
(* Properties of SpecJoints.                                               *)
(***************************************************************************)
\* The update thread is inside the loop over items (lines 252-263).
IteratingItems == updPc = "iter"

\* The update thread is about to call items.find (line 201).
LookingUpItems ==
  updPc = "list" /\ updTodo # {} /\ ~SkippedJoint(FirstOf(updTodo))

\* The Qt thread is about to erase an entry of items (line 104).
ErasingItem == guiPc = "erase"

\* C24: the Qt thread never modifies the item map of JointsModel while the
\* update thread iterates it or looks a joint up in it; the RemoveJoint
\* calls queued by Update never erase an entry during that iteration or
\* during a later Update's lookup.
C24_ItemsNotErasedUnderUpdate ==
  ~(ErasingItem /\ (IteratingItems \/ LookingUpItems))

\* C26: while the controller is locked no step changes the inspected
\* entity; while it is unlocked a non-empty selection sets it to the first
\* selected entity and a deselect-all sets it to the null entity; an Update
\* that starts with the null entity has the joint list cleared and then
\* sets the model name to "No model selected".
C26_LockedSelection ==
  [][/\ locked => modelEntity' = modelEntity
     /\ \A ev \in Events :
          eventFilter(ev) /\ ~locked =>
            /\ ev.type = "EntitiesSelected" /\ ev.data # <<>> =>
                 modelEntity' = ev.data[1]
            /\ ev.type = "DeselectAllEntities" =>
                 modelEntity' = kNullEntity
     /\ UpdateBegin /\ modelEntity = kNullEntity =>
          /\ updPc' = "wait_clear"
          /\ guiQueue'[Len(guiQueue')].op = "Clear"
     /\ updPc = "wait_clear" =>
          /\ updPc' \in {"wait_clear", "cleared"}
          /\ updPc' = "cleared" => items' = EmptyMap /\ rows' = <<>>
     /\ updPc = "cleared" /\ updPc' # "cleared" =>
          /\ items' = EmptyMap
          /\ rows' = <<>>
          /\ modelName' = StrNoModelSelected
          /\ updPc' = "idle"]_vars

\* Joints were listed, the entities were deselected, the controller was
\* locked, and an Update has cleared the list.
C26_Witness ==
  /\ locked
  /\ modelEntity = kNullEntity
  /\ modelName = StrNoModelSelected
  /\ items = EmptyMap
  /\ rows = <<>>
  /\ updPc = "idle"
  /\ jointEntities # {}

=============================================================================
